---- MODULE Spec2Model ----
(***************************************************************************)
(* Model of the DOM analyzer of Seregawpn/MCP (src/dom_analyzer):          *)
(*   AccessibilityParser  (accessibility_parser.py)                        *)
(*   ElementIndexer       (element_indexer.py)                             *)
(*   DOMAnalyzer          (dom_analyzer.py), the page-state cache          *)
(*                                                                         *)
(* Python values are modelled as follows.  A dict is a function whose      *)
(* DOMAIN is its key set; an Optional value is a sequence of length 0      *)
(* (None) or 1; a str that is inspected character by character (a node     *)
(* name) is a sequence of one-character strings; a str that is built by    *)
(* concatenation (an xpath, the hash input) is a sequence of tokens.       *)
(* A JSON value of the wrong type in a raw snapshot is a record with the   *)
(* single field json (a string or null where an object or a list is        *)
(* expected); a role value that is a JSON array is one of UnhashableRoles.  *)
(* Property values are JSON booleans.                                      *)
(***************************************************************************)
EXTENDS Integers, Sequences, FiniteSets, TLC

\* ------------------------------------------------------------------------
\* Bounds of the model
\* ------------------------------------------------------------------------
MaxId == 2        \* raw nodes carry nodeId 1..MaxId, or no nodeId at all
MaxLen == 2       \* longest raw node list drawn for the indexer
MaxTasks == 2     \* calls of analyze_page that are in flight together
MaxCalls == 2     \* calls of analyze_page counted by the statistics
MaxTime == 30     \* last instant of the clock

\* ------------------------------------------------------------------------
\* Program constants
\* ------------------------------------------------------------------------
min_text_length == 1
max_text_length == 500
cache_duration == 30

interactive_roles ==
  {"button", "link", "textbox", "checkbox", "radio", "combobox", "listbox",
   "menu", "menuitem", "tab", "dialog", "alert", "toolbar", "grid", "gridcell"}

ElementRole ==
  {"button", "link", "textbox", "checkbox", "radio", "combobox", "listbox",
   "menu", "menuitem", "tab", "tabpanel", "dialog", "alert", "status",
   "toolbar", "tooltip", "grid", "gridcell", "row", "column", "rowheader",
   "columnheader", "generic"}

ElementStateMembers ==
  {"VISIBLE", "HIDDEN", "DISABLED", "READONLY", "REQUIRED", "INVALID",
   "EXPANDED", "COLLAPSED", "SELECTED", "CHECKED", "FOCUSED"}

ElementStateValues ==
  {"visible", "hidden", "disabled", "readonly", "required", "invalid",
   "expanded", "collapsed", "selected", "checked", "focused"}

important_states ==
  {"expanded", "collapsed", "selected", "checked", "pressed", "disabled",
   "readonly", "required", "invalid", "focused", "hidden", "visible",
   "busy", "live"}

\* ------------------------------------------------------------------------
\* Python helpers
\* ------------------------------------------------------------------------
None == <<>>
Some(x) == <<x>>
EmptyDict == <<>>

\* dict.get(k, default)
Get(d, k, default) == IF k \in DOMAIN d THEN d[k] ELSE default

\* d[k] = v
Put(d, k, v) == [x \in (DOMAIN d) \cup {k} |-> IF x = k THEN v ELSE d[x]]

\* del d[k] when k is a key, d otherwise
Del(d, k) == [x \in (DOMAIN d) \ {k} |-> d[x]]

\* str.strip() of a character sequence
RECURSIVE LStrip(_)
LStrip(s) == IF s # <<>> /\ Head(s) = " " THEN LStrip(Tail(s)) ELSE s

RECURSIVE RStrip(_)
RStrip(s) ==
  IF s # <<>> /\ s[Len(s)] = " " THEN RStrip(SubSeq(s, 1, Len(s) - 1)) ELSE s

Strip(s) == RStrip(LStrip(s))

\* str.replace('"', '\\"').replace("'", "\\'") of a character sequence
RECURSIVE EscapeQuotes(_)
EscapeQuotes(s) ==
  IF s = <<>> THEN <<>>
  ELSE LET c == Head(s)
           e == IF c = "\"" THEN <<"\\", "\"">>
                ELSE IF c = "'" THEN <<"\\", "'">>
                ELSE <<c>>
       IN  e \o EscapeQuotes(Tail(s))

\* str(x) of an Optional[str]: None is formatted as the four characters None
StrOpt(v) == IF v = None THEN <<"N", "o", "n", "e">> ELSE v[1]

\* null where the snapshot should hold its list of raw nodes
JsonNull == [json |-> "null"]

\* iterating v raises TypeError: v is not a list
NotIterable(v) == ToString(v) = ToString(JsonNull)

\* node_data.get raises AttributeError: the raw node is not an object
NotAnObject(node_data) == "json" \in DOMAIN node_data

\* role values that are lists: x in a_set raises TypeError for them
UnhashableRoles == {"['status']"}

\* bool(v) of a property value
Truthy(v) == v = TRUE

\* ------------------------------------------------------------------------
\* AccessibilityParser
\* ------------------------------------------------------------------------
\* is_text_valid with the upper limit excluded
is_text_valid_exclusive(text) ==
  IF text = <<>> THEN FALSE
  ELSE LET text_length == Len(Strip(text))
       IN  text_length >= min_text_length /\ text_length < max_text_length

is_text_valid(text) ==
  IF text = <<>> THEN FALSE
  ELSE LET text_length == Len(Strip(text))
       IN  text_length >= min_text_length /\ text_length <= max_text_length

\* the property entries of a raw node that carry a name and a value
RECURSIVE AxProps(_)
AxProps(ps) ==
  IF ps = <<>> THEN <<>>
  ELSE LET p == Head(ps)
           prop_name == Get(Get(p, "name", EmptyDict), "value", "")
           prop_value == Get(Get(p, "value", EmptyDict), "value", None)
       IN  (IF prop_name # "" /\ prop_value # None
            THEN <<[name |-> prop_name, value |-> prop_value[1],
                    source |-> "accessibility"]>>
            ELSE <<>>) \o AxProps(Tail(ps))

NodeField(node_data, k) ==
  IF k \in DOMAIN node_data
  THEN <<[name |-> k, value |-> node_data[k], source |-> "node"]>>
  ELSE <<>>

parse_node_properties(node_data) ==
  AxProps(Get(node_data, "properties", <<>>))
    \o NodeField(node_data, "checked") \o NodeField(node_data, "expanded")
    \o NodeField(node_data, "selected") \o NodeField(node_data, "disabled")

\* the state names taken from the property list
RECURSIVE AxStates(_)
AxStates(ps) ==
  IF ps = <<>> THEN <<>>
  ELSE LET p == Head(ps)
           prop_name == Get(Get(p, "name", EmptyDict), "value", "")
           prop_value == Get(Get(p, "value", EmptyDict), "value", None)
       IN  (IF prop_name \in important_states /\ prop_value = Some(TRUE)
            THEN <<prop_name>> ELSE <<>>) \o AxStates(Tail(ps))

Flag(node_data, k) == IF Get(node_data, k, FALSE) THEN <<k>> ELSE <<>>

extract_node_states(node_data) ==
  AxStates(Get(node_data, "properties", <<>>))
    \o Flag(node_data, "checked") \o Flag(node_data, "expanded")
    \o Flag(node_data, "selected") \o Flag(node_data, "disabled")
    \o Flag(node_data, "readonly") \o Flag(node_data, "required")
    \o Flag(node_data, "invalid") \o Flag(node_data, "focused")
    \o (IF Get(node_data, "hidden", FALSE) THEN <<"hidden">> ELSE <<"visible">>)

parse_single_node(node_data) ==
  LET role_data == Get(node_data, "role", EmptyDict)
      name_data == Get(node_data, "name", EmptyDict)
      value_data == Get(node_data, "value", EmptyDict)
      name == Get(name_data, "value", <<>>)
  IN  [node_id |-> Get(node_data, "nodeId", 0),
       role |-> Get(role_data, "value", "generic"),
       name |-> IF is_text_valid(name) THEN name ELSE <<>>,
       value |-> Get(value_data, "value", None),
       properties |-> parse_node_properties(node_data),
       states |-> extract_node_states(node_data),
       children |-> Get(node_data, "childIds", <<>>),
       parent_id |-> Get(node_data, "parentId", None),
       is_interactive |-> FALSE]

\* _is_node_interactive raises: the role cannot be looked up in the set
IsInteractiveRaises(node) == node.role \in UnhashableRoles

\* is_node_interactive with an event handler counted only when its value
\* is truthy
is_node_interactive_truthy_events(node) ==
  IF node.role \in interactive_roles THEN TRUE
  ELSE IF \E i \in DOMAIN node.states :
            node.states[i] \in {"button", "link", "menuitem", "tab"}
       THEN TRUE
  ELSE \E i \in DOMAIN node.properties :
         /\ node.properties[i].name
              \in {"clickable", "pressable", "selectable",
                   "onclick", "onkeydown", "onkeyup", "onsubmit"}
         /\ Truthy(node.properties[i].value)

is_node_interactive(node) ==
  IF node.role \in interactive_roles THEN TRUE
  ELSE IF \E i \in DOMAIN node.states :
            node.states[i] \in {"button", "link", "menuitem", "tab"}
       THEN TRUE
  ELSE IF \E i \in DOMAIN node.properties :
            /\ node.properties[i].name
                 \in {"clickable", "pressable", "selectable"}
            /\ Truthy(node.properties[i].value)
       THEN TRUE
  ELSE IF \E i \in DOMAIN node.properties :
            node.properties[i].name
              \in {"onclick", "onkeydown", "onkeyup", "onsubmit"}
       THEN TRUE
  ELSE FALSE

convert_to_accessibility_node(parsed_node) ==
  [node_id |-> parsed_node.node_id,
   role |-> parsed_node.role,
   name |-> parsed_node.name,
   value |-> parsed_node.value,
   state |-> [s \in {parsed_node.states[i] : i \in DOMAIN parsed_node.states}
                |-> TRUE],
   children |-> parsed_node.children,
   parent_id |-> parsed_node.parent_id]

\* first pass of parse_accessibility_tree: a raw node that fails to parse
\* is skipped
RECURSIVE FirstPass(_)
FirstPass(nodes_data) ==
  IF nodes_data = <<>> THEN <<>>
  ELSE (IF NotAnObject(Head(nodes_data)) THEN <<>>
        ELSE <<parse_single_node(Head(nodes_data))>>)
         \o FirstPass(Tail(nodes_data))

\* second pass: is_interactive of every parsed node
RECURSIVE SecondPass(_)
SecondPass(parsed_nodes) ==
  IF parsed_nodes = <<>> THEN <<>>
  ELSE <<[Head(parsed_nodes) EXCEPT
            !.is_interactive = is_node_interactive(Head(parsed_nodes))]>>
         \o SecondPass(Tail(parsed_nodes))

\* third pass: the conversion to AccessibilityNode
RECURSIVE ConvertPass(_)
ConvertPass(parsed_nodes) ==
  IF parsed_nodes = <<>> THEN <<>>
  ELSE <<convert_to_accessibility_node(Head(parsed_nodes))>>
         \o ConvertPass(Tail(parsed_nodes))

\* the except branch of parse_accessibility_tree: the empty list
ParseFailed(ax_tree_data) ==
  [ax_tree_data |-> ax_tree_data, parsed_nodes |-> <<>>,
   accessibility_nodes |-> <<>>, failed |-> TRUE, called |-> TRUE]

\* the passes of parse_accessibility_tree over the nodes that parsed
ParsePasses(ax_tree_data, parsed_nodes) ==
  IF \E i \in DOMAIN parsed_nodes : IsInteractiveRaises(parsed_nodes[i])
  THEN ParseFailed(ax_tree_data)
  ELSE [ax_tree_data |-> ax_tree_data,
        parsed_nodes |-> SecondPass(parsed_nodes),
        accessibility_nodes |-> ConvertPass(SecondPass(parsed_nodes)),
        failed |-> FALSE, called |-> TRUE]

\* one call of parse_accessibility_tree: its argument, the parsed nodes
\* after the second pass, the list it returns, and whether it took the
\* except branch (called tells the record of a call from NoParse)
ParseCall(ax_tree_data) ==
  IF ax_tree_data = EmptyDict \/ "nodes" \notin DOMAIN ax_tree_data
  THEN [ax_tree_data |-> ax_tree_data, parsed_nodes |-> <<>>,
        accessibility_nodes |-> <<>>, failed |-> FALSE, called |-> TRUE]
  ELSE IF NotIterable(ax_tree_data.nodes) THEN ParseFailed(ax_tree_data)
  ELSE ParsePasses(ax_tree_data, FirstPass(ax_tree_data.nodes))

parse_accessibility_tree(ax_tree_data) ==
  ParseCall(ax_tree_data).accessibility_nodes

\* ------------------------------------------------------------------------
\* ElementIndexer
\* ------------------------------------------------------------------------
\* ElementIndexer.__init__: the counter, the current maps, the previous-pass
\* maps.  log records, for the current pass, which branch of
\* _get_or_create_*_index each indexed node took (the increments of
\* _indexing_stats['cached_hits'] and ['cache_misses']).
NewIndexer ==
  [element_counter |-> 0,
   index_to_node |-> EmptyDict,
   node_id_to_index |-> EmptyDict,
   xpath_to_index |-> EmptyDict,
   previous_indices |-> EmptyDict,
   previous_xpaths |-> EmptyDict,
   log |-> <<>>]

\* a variant that indexes hidden nodes
should_index_node_keeps_hidden(node) ==
  IF node.name = <<>> /\ node.role = "generic" THEN FALSE
  ELSE IF node.name # <<>> /\ Len(node.name) > max_text_length THEN FALSE
  ELSE TRUE

should_index_node(node) ==
  IF Get(node.state, "hidden", FALSE) THEN FALSE
  ELSE IF node.name = <<>> /\ node.role = "generic" THEN FALSE
  ELSE IF node.name # <<>> /\ Len(node.name) > max_text_length THEN FALSE
  ELSE TRUE

determine_index_type(node) ==
  IF node.role \in interactive_roles THEN "interactive"
  ELSE IF \E state \in {"clickable", "pressable", "selectable", "focusable"} :
            state \in DOMAIN node.state
       THEN "interactive"
  ELSE "element"

\* a variant that allocates the value after the counter
get_or_create_interactive_index_skips(st, node) ==
  IF /\ node.node_id \in DOMAIN st.node_id_to_index
     /\ st.node_id_to_index[node.node_id] \in DOMAIN st.index_to_node
     /\ st.index_to_node[st.node_id_to_index[node.node_id]].is_interactive
  THEN [index |-> st.node_id_to_index[node.node_id], hit |-> TRUE]
  ELSE [index |-> st.element_counter + 1, hit |-> FALSE]

\* the index and whether it came from the maps (cached hit) or the counter
get_or_create_interactive_index(st, node) ==
  IF /\ node.node_id \in DOMAIN st.node_id_to_index
     /\ st.node_id_to_index[node.node_id] \in DOMAIN st.index_to_node
     /\ st.index_to_node[st.node_id_to_index[node.node_id]].is_interactive
  THEN [index |-> st.node_id_to_index[node.node_id], hit |-> TRUE]
  ELSE [index |-> st.element_counter, hit |-> FALSE]

get_or_create_element_index(st, node) ==
  IF /\ node.node_id \in DOMAIN st.node_id_to_index
     /\ st.node_id_to_index[node.node_id] \in DOMAIN st.index_to_node
  THEN [index |-> st.node_id_to_index[node.node_id], hit |-> TRUE]
  ELSE [index |-> st.element_counter, hit |-> FALSE]

get_parent_index(st, node) ==
  IF node.parent_id = None THEN None
  ELSE IF node.parent_id[1] \in DOMAIN st.node_id_to_index
       THEN Some(st.node_id_to_index[node.parent_id[1]])
       ELSE None

RECURSIVE ChildIndices(_, _)
ChildIndices(st, children) ==
  IF children = <<>> THEN <<>>
  ELSE (IF Head(children) \in DOMAIN st.node_id_to_index
        THEN <<st.node_id_to_index[Head(children)]>> ELSE <<>>)
         \o ChildIndices(st, Tail(children))

get_children_indices(st, node) == ChildIndices(st, node.children)

\* The while loop of _calculate_depth.  The maps do not change during the
\* walk, so a walk that continues through more parents than the identifier
\* map has keys has come back to an identifier and never ends: -1.
RECURSIVE DepthWalk(_, _, _, _)
DepthWalk(st, current_parent_id, depth, fuel) ==
  IF current_parent_id = None THEN depth
  ELSE IF current_parent_id[1] \notin DOMAIN st.node_id_to_index
       THEN depth + 1
  ELSE IF st.node_id_to_index[current_parent_id[1]] \notin DOMAIN st.index_to_node
       THEN depth + 1
  ELSE IF fuel = 0 THEN -1
  ELSE DepthWalk(st,
         st.index_to_node[st.node_id_to_index[current_parent_id[1]]].node.parent_id,
         depth + 1, fuel - 1)

calculate_depth(st, node) ==
  DepthWalk(st, node.parent_id, 0, Cardinality(DOMAIN st.node_id_to_index))

generate_xpath(node) ==
  LET role_part == IF node.role # "" /\ node.role # "generic"
                   THEN <<node.role>> ELSE <<>>
      name_part == IF node.name # <<>>
                   THEN <<"[@name=\"">> \o EscapeQuotes(node.name) \o <<"\"]">>
                   ELSE <<>>
      value_part == IF node.value # None /\ node.value[1] # <<>>
                    THEN <<"[@value=\"">> \o EscapeQuotes(node.value[1]) \o <<"\"]">>
                    ELSE <<>>
      parts == role_part \o name_part \o value_part
  IN  <<"//">> \o (IF parts = <<>> THEN <<"generic">> ELSE parts)

\* a variant of _is_node_new that looks at the identifier only
is_node_new_by_id(st, node) ==
  node.node_id \notin DOMAIN st.previous_indices

is_node_new(st, node) ==
  IF node.node_id \in DOMAIN st.previous_indices THEN FALSE
  ELSE IF generate_xpath(node) \in DOMAIN st.previous_xpaths THEN FALSE
  ELSE TRUE

extract_tag_name(node) == IF node.role # "" THEN node.role ELSE "generic"

\* a variant that leaves out the states whose value is false
extract_attributes_true_only(node) ==
  LET keys == {k \in DOMAIN node.state : node.state[k]}
                \cup (IF node.role # "" THEN {"role"} ELSE {})
                \cup (IF node.name # <<>> THEN {"name"} ELSE {})
                \cup (IF node.value # None /\ node.value[1] # <<>>
                      THEN {"value"} ELSE {})
  IN  [k \in keys |->
         IF k = "value" /\ node.value # None /\ node.value[1] # <<>>
           THEN node.value[1]
         ELSE IF k = "name" /\ node.name # <<>> THEN node.name
         ELSE IF k = "role" /\ node.role # "" THEN <<node.role>>
         ELSE <<"true">>]

extract_attributes(node) ==
  LET keys == (DOMAIN node.state)
                \cup (IF node.role # "" THEN {"role"} ELSE {})
                \cup (IF node.name # <<>> THEN {"name"} ELSE {})
                \cup (IF node.value # None /\ node.value[1] # <<>>
                      THEN {"value"} ELSE {})
  IN  [k \in keys |->
         IF k = "value" /\ node.value # None /\ node.value[1] # <<>>
           THEN node.value[1]
         ELSE IF k = "name" /\ node.name # <<>> THEN node.name
         ELSE IF k = "role" /\ node.role # "" THEN <<node.role>>
         ELSE IF node.state[k] THEN <<"true">> ELSE <<"false">>]

\* ElementRole(role) raises ValueError outside the vocabulary
ConvertRaises(indexed_node) ==
  indexed_node.node.role # "" /\ indexed_node.node.role \notin ElementRole

convert_to_indexed_element(indexed_node) ==
  [index |-> indexed_node.index,
   role |-> IF indexed_node.node.role # "" THEN indexed_node.node.role
            ELSE "generic",
   text |-> indexed_node.node.name,
   tag_name |-> indexed_node.tag_name,
   attributes |-> indexed_node.attributes,
   states |-> {s \in DOMAIN indexed_node.node.state :
                 s \in ElementStateMembers /\ s \in ElementStateValues},
   xpath |-> indexed_node.xpath,
   is_interactive |-> indexed_node.is_interactive,
   parent_index |-> indexed_node.parent_index,
   children_indices |-> indexed_node.children_indices]

\* _index_single_node, last step: the conversion of the stored node to the
\* element that is returned (None when ElementRole raises)
ConvertNode(st2, indexed_node) ==
  IF ConvertRaises(indexed_node)
  THEN [st |-> st2, element |-> None, hang |-> FALSE]
  ELSE [st |-> st2,
        element |-> Some(convert_to_indexed_element(indexed_node)),
        hang |-> FALSE]

\* _index_single_node: the node is written to the three current maps; a
\* depth walk that never returns (depth -1) blocks before the maps are written
StoreNode(st1, indexed_node) ==
  IF indexed_node.depth = -1
  THEN [st |-> st1, element |-> None, hang |-> TRUE]
  ELSE ConvertNode(
         [st1 EXCEPT
            !.index_to_node = Put(@, indexed_node.index, indexed_node),
            !.node_id_to_index = Put(@, indexed_node.node.node_id,
                                     indexed_node.index),
            !.xpath_to_index = Put(@, indexed_node.xpath,
                                   indexed_node.index)],
         indexed_node)

\* _index_single_node: the IndexedNode built for the node and its index
BuildNode(st1, node, index_type, index) ==
  StoreNode(st1,
    [node |-> node,
     index |-> index,
     parent_index |-> get_parent_index(st1, node),
     children_indices |-> get_children_indices(st1, node),
     depth |-> calculate_depth(st1, node),
     is_new |-> is_node_new(st1, node),
     xpath |-> generate_xpath(node),
     tag_name |-> extract_tag_name(node),
     attributes |-> extract_attributes(node),
     is_interactive |-> index_type = "interactive",
     interactive_type |-> IF index_type = "interactive"
                          THEN index_type ELSE ""])

\* _index_single_node: the index is taken from the maps or from the counter
TakeIndex(st, node, index_type, got) ==
  BuildNode(
    [st EXCEPT
       !.element_counter = IF got.hit THEN @ ELSE @ + 1,
       !.log = Append(@, [node_id |-> node.node_id,
                          index_type |-> index_type,
                          hit |-> got.hit, index |-> got.index])],
    node, index_type, got.index)

\* _index_single_node: the category of the node selects the index function
IndexAs(st, node, index_type) ==
  TakeIndex(st, node, index_type,
    IF index_type = "interactive"
    THEN get_or_create_interactive_index(st, node)
    ELSE get_or_create_element_index(st, node))

\* _index_single_node: the indexer after the node, the element it returns
\* (None when the node is skipped or the conversion raises), and whether the
\* depth walk never returns.
index_single_node(st, node) ==
  IF ~should_index_node(node)
  THEN [st |-> st, element |-> None, hang |-> FALSE]
  ELSE IndexAs(st, node, determine_index_type(node))

\* the for loop of index_elements: IndexStep takes the outcome of one node
RECURSIVE IndexLoop(_, _, _)
RECURSIVE IndexStep(_, _, _)
IndexStep(r, nodes, indexed_elements) ==
  IF r.hang
  THEN [st |-> r.st, indexed_elements |-> indexed_elements, hang |-> TRUE]
  ELSE IndexLoop(r.st, nodes, indexed_elements \o r.element)

IndexLoop(st, nodes, indexed_elements) ==
  IF nodes = <<>>
  THEN [st |-> st, indexed_elements |-> indexed_elements, hang |-> FALSE]
  ELSE IndexStep(index_single_node(st, Head(nodes)), Tail(nodes),
                 indexed_elements)

\* a variant that adds the current entries to the saved maps
save_current_indices_merges(st) ==
  [st EXCEPT
     !.previous_indices =
        [id \in DOMAIN st.previous_indices \cup DOMAIN st.node_id_to_index |->
           IF id \in DOMAIN st.node_id_to_index THEN st.node_id_to_index[id]
           ELSE st.previous_indices[id]],
     !.previous_xpaths =
        [x \in DOMAIN st.previous_xpaths \cup DOMAIN st.xpath_to_index |->
           IF x \in DOMAIN st.xpath_to_index THEN st.xpath_to_index[x]
           ELSE st.previous_xpaths[x]]]

save_current_indices(st) ==
  [st EXCEPT !.previous_indices = st.node_id_to_index,
             !.previous_xpaths = st.xpath_to_index]

\* the end of index_elements: the maps are saved for the next comparison
EndPass(r) ==
  IF r.hang THEN r
  ELSE [st |-> save_current_indices(r.st),
        indexed_elements |-> r.indexed_elements, hang |-> FALSE]

\* a variant that keeps the counter of the pass before
index_elements_keeps_counter(st, accessibility_nodes) ==
  EndPass(IndexLoop([st EXCEPT !.index_to_node = EmptyDict,
                               !.node_id_to_index = EmptyDict,
                               !.xpath_to_index = EmptyDict,
                               !.log = <<>>],
                    accessibility_nodes, <<>>))

\* index_elements: reset the counter, clear the current maps, index every
\* node, save the maps for the next comparison
index_elements(st, accessibility_nodes) ==
  EndPass(IndexLoop([st EXCEPT !.element_counter = 0,
                               !.index_to_node = EmptyDict,
                               !.node_id_to_index = EmptyDict,
                               !.xpath_to_index = EmptyDict,
                               !.log = <<>>],
                    accessibility_nodes, <<>>))

\* ElementIndexer.clear_cache
indexer_clear_cache(st) ==
  [st EXCEPT !.previous_indices = EmptyDict, !.previous_xpaths = EmptyDict]

\* sorted(..., key=index): Python's sort is stable
RECURSIVE InsertByIndex(_, _)
InsertByIndex(sorted, e) ==
  IF sorted = <<>> THEN <<e>>
  ELSE IF Head(sorted).index <= e.index
       THEN <<Head(sorted)>> \o InsertByIndex(Tail(sorted), e)
       ELSE <<e>> \o sorted

RECURSIVE SortByIndex(_)
SortByIndex(xs) ==
  IF xs = <<>> THEN <<>>
  ELSE InsertByIndex(SortByIndex(SubSeq(xs, 1, Len(xs) - 1)), xs[Len(xs)])

\* the values of _index_to_node in ascending index order
RECURSIVE IndexedNodesFrom(_, _)
IndexedNodesFrom(st, keys) ==
  IF keys = {} THEN <<>>
  ELSE LET k == CHOOSE x \in keys : \A y \in keys : x <= y
       IN  <<st.index_to_node[k]>> \o IndexedNodesFrom(st, keys \ {k})

RECURSIVE ConvertAll(_)
ConvertAll(ns) ==
  IF ns = <<>> THEN <<>>
  ELSE <<convert_to_indexed_element(Head(ns))>> \o ConvertAll(Tail(ns))

\* get_element_by_index: the element, None, or the ValueError of the conversion
get_element_by_index(st, index) ==
  IF index \notin DOMAIN st.index_to_node
  THEN [raises |-> FALSE, element |-> None]
  ELSE IF ConvertRaises(st.index_to_node[index])
       THEN [raises |-> TRUE, element |-> None]
  ELSE [raises |-> FALSE,
        element |-> Some(convert_to_indexed_element(st.index_to_node[index]))]

\* get_interactive_elements raises when the conversion of a node does
InteractiveRaises(st) ==
  \E i \in DOMAIN st.index_to_node :
    st.index_to_node[i].is_interactive /\ ConvertRaises(st.index_to_node[i])

get_interactive_elements(st) ==
  SortByIndex(ConvertAll(SelectSeq(
    IndexedNodesFrom(st, DOMAIN st.index_to_node),
    LAMBDA n : n.is_interactive)))

\* ------------------------------------------------------------------------
\* State
\* ------------------------------------------------------------------------
VARIABLES
  indexer,             \* the ElementIndexer of the analyzer
  indexed_out,         \* the list returned by the last index_elements call
  parser,              \* the last call of parse_accessibility_tree
  hung,                \* a depth walk that never returns blocks the process
  analysis_cache,      \* DOMAnalyzer._analysis_cache
  last_analysis_time,  \* DOMAnalyzer._last_analysis_time
  analysis_stats,      \* DOMAnalyzer._analysis_stats
  connected,           \* CDPClient.connected
  clock,               \* time.time()
  task,                \* the calls of analyze_page that are in flight
  returned             \* the call that was entered or ended in the last step

vars == <<indexer, indexed_out, parser, hung, analysis_cache,
          last_analysis_time, analysis_stats, connected, clock, task,
          returned>>

analyzerVars == <<analysis_cache, last_analysis_time, analysis_stats,
                  connected, clock, task, returned>>

\* ------------------------------------------------------------------------
\* Raw snapshots
\* ------------------------------------------------------------------------
\* a name of n characters
NameOf(n) == [i \in 1..n |-> "a"]

RawButton(id) ==
  [nodeId |-> id, role |-> [value |-> "button"], name |-> [value |-> <<"a">>]]

RawStatus(id) ==
  [nodeId |-> id, role |-> [value |-> "status"], name |-> [value |-> <<"a">>]]

\* no role and no name: role "generic", empty name
RawGeneric(id) == [nodeId |-> id]

\* no nodeId: the identifier defaults to 0
RawNoId == [role |-> [value |-> "status"], name |-> [value |-> <<"a">>]]

\* a property entry; the value it carries is an Optional
RawProp(name, value) ==
  [name |-> [value |-> name], value |-> [value |-> Some(value)]]

\* a named generic node with an onclick property
RawOnclick ==
  [nodeId |-> 1, name |-> [value |-> <<"a">>],
   properties |-> <<RawProp("onclick", TRUE)>>]

\* a node that names node 2 as its parent
RawChild ==
  [nodeId |-> 1, role |-> [value |-> "status"], name |-> [value |-> <<"a">>],
   parentId |-> Some(2)]

\* a node that lists node 1 as its child
RawParent ==
  [nodeId |-> 2, role |-> [value |-> "status"], name |-> [value |-> <<"a">>],
   childIds |-> <<1>>]

\* a node that names itself as its parent
RawSelfParent ==
  [nodeId |-> 1, role |-> [value |-> "status"], name |-> [value |-> <<"a">>],
   parentId |-> Some(1)]

\* a node whose value is the text None
RawNoneText ==
  [nodeId |-> 1, role |-> [value |-> "status"], name |-> [value |-> <<"a">>],
   value |-> [value |-> Some(<<"N", "o", "n", "e">>)]]

\* a role outside the ElementRole vocabulary
RawHeading ==
  [nodeId |-> 1, role |-> [value |-> "heading"], name |-> [value |-> <<"a">>]]

RawNodes ==
  {RawButton(id) : id \in 1..MaxId} \cup {RawStatus(id) : id \in 1..MaxId}
    \cup {RawGeneric(id) : id \in 1..MaxId} \cup {RawNoId}
    \cup {RawSelfParent, RawNoneText, RawHeading, RawOnclick, RawChild,
          RawParent}

RawLists == UNION {[1..n -> RawNodes] : n \in 0..MaxLen}

Tasks == 1..MaxTasks

\* a caller that is not inside analyze_page; inside, the record holds the
\* arguments and locals of the call and the await it is suspended at (pc)
IdleTask ==
  [pc |-> "idle", target_id |-> "", start_time |-> 0,
   page_info |-> None, accessibility_nodes |-> <<>>,
   indexed_elements |-> <<>>, interactive_elements |-> <<>>]

\* no call of analyze_page was entered or ended in the last step
NoReturn ==
  [task |-> 0, at |-> "idle", target_id |-> "",
   start_time |-> 0, outcome |-> "none", from_cache |-> FALSE,
   result |-> None]

\* clear_cache was called in the last step, for one target or (target_id
\* "") for all
Cleared(target_id) ==
  [NoReturn EXCEPT !.at = "clear_cache", !.target_id = target_id]

\* how a call of analyze_page ended: the value it returned (outcome
\* "result") or the exception it raised.  A call that was entered and
\* suspended at its first await has the outcome "started".
Ended(t, outcome, from_cache, result) ==
  [task |-> t, at |-> task[t].pc, target_id |-> task[t].target_id,
   start_time |-> task[t].start_time,
   outcome |-> outcome, from_cache |-> from_cache, result |-> result]

\* parse_accessibility_tree has not been called
NoParse ==
  [ax_tree_data |-> EmptyDict, parsed_nodes |-> <<>>,
   accessibility_nodes |-> <<>>, failed |-> FALSE, called |-> FALSE]

\* the analyzer after construction, but for its parser
InitRest ==
  /\ indexer = NewIndexer
  /\ indexed_out = <<>>
  /\ hung = FALSE
  /\ analysis_cache = EmptyDict
  /\ last_analysis_time = EmptyDict
  /\ analysis_stats = [total_analyses |-> 0, cache_hits |-> 0,
                       cache_misses |-> 0, total_analysis_time |-> 0]
  /\ connected = FALSE
  /\ clock = 0
  /\ task = [t \in Tasks |-> IdleTask]
  /\ returned = NoReturn

Init == parser = NoParse /\ InitRest

\* ------------------------------------------------------------------------
\* The indexer on its own: parse a raw node list, index it
\* ------------------------------------------------------------------------
\* the outcome of a pass becomes the state of the indexer
PassDone(r) ==
  /\ indexer' = r.st
  /\ indexed_out' = r.indexed_elements
  /\ hung' = r.hang

\* the parsed nodes are indexed
IndexParsed(p) ==
  /\ parser' = p
  /\ PassDone(index_elements(indexer, p.accessibility_nodes))

IndexPass(nodes_data) ==
  /\ ~hung
  /\ IndexParsed(ParseCall([nodes |-> nodes_data]))
  /\ UNCHANGED analyzerVars

IndexerClearCache ==
  /\ ~hung
  /\ indexer' = indexer_clear_cache(indexer)
  /\ UNCHANGED <<indexed_out, parser, hung>>
  /\ UNCHANGED analyzerVars

NextIdx ==
  \/ \E nodes_data \in RawLists : IndexPass(nodes_data)
  \/ IndexerClearCache

SpecIdx == Init /\ [][NextIdx]_vars

\* ------------------------------------------------------------------------
\* The indexer on snapshots that hold nodes it leaves out
\* ------------------------------------------------------------------------
\* a button the snapshot marks hidden
RawHidden ==
  [nodeId |-> 1, role |-> [value |-> "button"], name |-> [value |-> <<"a">>],
   hidden |-> TRUE]

\* a name the parser keeps (its trimmed length is max_text_length) and the
\* indexer finds too long (its length is max_text_length + 1)
RawLong ==
  [nodeId |-> 1, role |-> [value |-> "status"],
   name |-> [value |-> NameOf(max_text_length) \o <<" ">>]]

PassNodes ==
  {RawButton(id) : id \in 1..MaxId}
    \cup {RawHidden, RawStatus(1), RawGeneric(2), RawLong}

PassLists == UNION {[1..n -> PassNodes] : n \in 0..MaxLen}

NextPass ==
  \/ \E nodes_data \in PassLists : IndexPass(nodes_data)
  \/ IndexerClearCache

SpecPass == Init /\ [][NextPass]_vars

\* ------------------------------------------------------------------------
\* The indexer on nodes handed to it directly
\* ------------------------------------------------------------------------
\* the state mappings of a node: each of two states is absent, true or false
GivenStates == UNION {[S -> BOOLEAN] : S \in SUBSET {"checked", "hidden"}}

\* AccessibilityNode objects built by the caller of index_elements
GivenNodes ==
  {[node_id |-> 1, role |-> role, name |-> name, value |-> value,
    state |-> state, children |-> <<>>, parent_id |-> None] :
     role \in {"status", ""}, name \in {<<>>, <<"a">>},
     value \in {None, Some(<<>>), Some(<<"v">>)}, state \in GivenStates}

\* the list that index_elements will be called with (no parser call)
InitAttr ==
  /\ InitRest
  /\ \E node \in GivenNodes :
       parser = [NoParse EXCEPT !.accessibility_nodes = <<node>>]

\* index_elements on the given list
IndexGiven ==
  /\ ~hung
  /\ PassDone(index_elements(indexer, parser.accessibility_nodes))
  /\ UNCHANGED parser
  /\ UNCHANGED analyzerVars

NextAttr == IndexGiven

SpecAttr == InitAttr /\ [][NextAttr]_vars

\* ------------------------------------------------------------------------
\* The parser on its own: a raw snapshot is drawn, then parsed
\* ------------------------------------------------------------------------
\* names at the limits of min_text_length and max_text_length
RawNames ==
  {<<>>, <<" ">>, <<"a">>, <<" ", "a", " ">>, NameOf(max_text_length),
   NameOf(max_text_length) \o <<" ">>, NameOf(max_text_length + 1)}

\* property lists: none, an event handler with the value false, an event
\* handler without a value, clickable true and false, hidden and visible
RawProperties ==
  {<<>>, <<RawProp("onclick", FALSE)>>, <<[name |-> [value |-> "onclick"]]>>,
   <<RawProp("clickable", TRUE)>>, <<RawProp("clickable", FALSE)>>,
   <<RawProp("hidden", TRUE)>>, <<RawProp("visible", TRUE)>>}

RawRoles == {"button", "generic"} \cup UnhashableRoles

\* a raw node that is a string
RawJunk == [json |-> "junk"]

RawParseNodes ==
  {[nodeId |-> 1, role |-> [value |-> role], name |-> [value |-> name],
    properties |-> properties, hidden |-> hidden] :
     role \in RawRoles, name \in RawNames, properties \in RawProperties,
     hidden \in BOOLEAN}
    \cup {RawJunk}

\* a well-formed button
RawPlain ==
  [nodeId |-> 2, role |-> [value |-> "button"], name |-> [value |-> <<"b">>],
   properties |-> <<>>, hidden |-> FALSE]

\* node lists: empty, one node, one node before or after a well-formed one
RawParseLists ==
  {<<>>} \cup {<<n>> : n \in RawParseNodes}
    \cup {<<RawPlain, n>> : n \in RawParseNodes}
    \cup {<<n, RawPlain>> : n \in RawParseNodes}

\* the snapshot is absent, has no node list, has null for its node list,
\* or has a node list
InitParse ==
  /\ InitRest
  /\ \/ parser = NoParse
     \/ parser = [NoParse EXCEPT !.ax_tree_data = [other |-> TRUE]]
     \/ parser = [NoParse EXCEPT !.ax_tree_data = [nodes |-> JsonNull]]
     \/ \E nodes_data \in RawParseLists :
          parser = [NoParse EXCEPT !.ax_tree_data = [nodes |-> nodes_data]]

\* parse_accessibility_tree(ax_tree_data)
Parse ==
  /\ ~parser.called
  /\ parser' = ParseCall(parser.ax_tree_data)
  /\ UNCHANGED <<indexer, indexed_out, hung>>
  /\ UNCHANGED analyzerVars

NextParse == Parse

SpecParse == InitParse /\ [][NextParse]_vars

\* ------------------------------------------------------------------------
\* DOMAnalyzer
\* ------------------------------------------------------------------------
Keys == {"A", "B"}

\* what the accessibility-tree fetch can deliver: response.data
\* ['accessibility_tree'], or {} when the response has no such entry
Snapshots ==
  {[nodes |-> <<RawButton(1), RawStatus(2)>>],
   [nodes |-> <<RawStatus(2)>>]}

\* the time that can pass between two steps
TickSteps == {15}

\* the hash input of _calculate_dom_hash, one token per formatted field.
\* MD5 is taken to be free of collisions: the digest stands for its input.
RECURSIVE NodeInfo(_)
NodeInfo(accessibility_nodes) ==
  IF accessibility_nodes = <<>> THEN <<>>
  ELSE LET node == Head(accessibility_nodes)
       IN  <<ToString(node.node_id), ":", node.role, ":">> \o node.name
             \o <<":">> \o StrOpt(node.value) \o <<"|">>
             \o NodeInfo(Tail(accessibility_nodes))

RECURSIVE ElementInfo(_)
ElementInfo(indexed_elements) ==
  IF indexed_elements = <<>> THEN <<>>
  ELSE LET element == Head(indexed_elements)
       IN  <<ToString(element.index), ":", element.role, ":">> \o element.text
             \o <<"|">> \o ElementInfo(Tail(indexed_elements))

calculate_dom_hash(accessibility_nodes, indexed_elements) ==
  NodeInfo(accessibility_nodes) \o ElementInfo(indexed_elements)

\* should_use_cached_result with the comparison of the age inverted
should_use_cached_result_inverted(target_id) ==
  IF target_id \notin DOMAIN analysis_cache THEN FALSE
  ELSE IF target_id \notin DOMAIN last_analysis_time THEN FALSE
  ELSE LET cache_age == clock - last_analysis_time[target_id]
       IN  cache_age > cache_duration

\* should_use_cached_result with an entry of age cache_duration still valid
should_use_cached_result_inclusive(target_id) ==
  IF target_id \notin DOMAIN analysis_cache THEN FALSE
  ELSE IF target_id \notin DOMAIN last_analysis_time THEN FALSE
  ELSE LET cache_age == clock - last_analysis_time[target_id]
       IN  cache_age <= cache_duration

should_use_cached_result(target_id) ==
  IF target_id \notin DOMAIN analysis_cache THEN FALSE
  ELSE IF target_id \notin DOMAIN last_analysis_time THEN FALSE
  ELSE LET cache_age == clock - last_analysis_time[target_id]
       IN  cache_age < cache_duration

InFlight(t) == task[t].pc \in {"connect", "page_info", "ax_tree", "metrics"}

\* analyze_page up to its first await: the cache check, the hit or the miss
Call(t, target_id, force_refresh) ==
  /\ ~hung
  /\ task[t].pc = "idle"
  /\ \A u \in Tasks : u < t => task[u].pc # "idle"
  /\ analysis_stats.cache_hits + analysis_stats.cache_misses < MaxCalls
  /\ IF ~force_refresh /\ should_use_cached_result(target_id)
     THEN /\ analysis_stats' = [analysis_stats EXCEPT !.cache_hits = @ + 1]
          /\ returned' = [task |-> t, at |-> "idle",
                          target_id |-> target_id,
                          force_refresh |-> force_refresh,
                          start_time |-> clock, outcome |-> "result",
                          from_cache |-> TRUE,
                          result |-> Some(analysis_cache[target_id])]
          /\ UNCHANGED task
     ELSE /\ analysis_stats' = [analysis_stats EXCEPT !.cache_misses = @ + 1]
          /\ task' = [task EXCEPT ![t] =
               [@ EXCEPT !.pc = IF connected THEN "page_info" ELSE "connect",
                         !.target_id = target_id,
                         !.start_time = clock]]
          /\ returned' = [task |-> t, at |-> "idle",
                          target_id |-> target_id,
                          force_refresh |-> force_refresh,
                          start_time |-> clock, outcome |-> "started",
                          from_cache |-> FALSE, result |-> None]
  /\ UNCHANGED <<indexer, indexed_out, parser, hung, analysis_cache,
                 last_analysis_time, connected, clock>>

\* the exception handler of analyze_page: log and re-raise
Raise(t, why) ==
  /\ returned' = Ended(t, why, FALSE, None)
  /\ task' = [task EXCEPT ![t] = IdleTask]

\* _ensure_cdp_connection returns: connect() found targets
ConnectOk(t) ==
  /\ ~hung
  /\ task[t].pc = "connect"
  /\ connected' = TRUE
  /\ task' = [task EXCEPT ![t] = [@ EXCEPT !.pc = "page_info"]]
  /\ returned' = NoReturn
  /\ UNCHANGED <<indexer, indexed_out, parser, hung, analysis_cache,
                 last_analysis_time, analysis_stats, clock>>

\* _ensure_cdp_connection raises: connect() reports no success
ConnectFail(t) ==
  /\ ~hung
  /\ task[t].pc = "connect"
  /\ Raise(t, "connect_failed")
  /\ UNCHANGED <<indexer, indexed_out, parser, hung, analysis_cache,
                 last_analysis_time, analysis_stats, connected, clock>>

\* PageInfoOk with the current maps of the indexer cleared before the
\* snapshot is fetched
PageInfoOk_clears_maps(t) ==
  /\ ~hung
  /\ task[t].pc = "page_info"
  /\ task' = [task EXCEPT ![t] =
       [@ EXCEPT !.pc = "ax_tree",
                 !.page_info = Some([url |-> <<"url-", task[t].target_id>>,
                                     title |-> <<"title-", task[t].target_id>>])]]
  /\ indexer' = [indexer EXCEPT !.element_counter = 0,
                                !.index_to_node = EmptyDict,
                                !.node_id_to_index = EmptyDict,
                                !.xpath_to_index = EmptyDict]
  /\ returned' = NoReturn
  /\ UNCHANGED <<indexed_out, parser, hung, analysis_cache,
                 last_analysis_time, analysis_stats, connected, clock>>

\* _get_page_info returns the url and title of the target
PageInfoOk(t) ==
  /\ ~hung
  /\ task[t].pc = "page_info"
  /\ task' = [task EXCEPT ![t] =
       [@ EXCEPT !.pc = "ax_tree",
                 !.page_info = Some([url |-> <<"url-", task[t].target_id>>,
                                     title |-> <<"title-", task[t].target_id>>])]]
  /\ returned' = NoReturn
  /\ UNCHANGED <<indexer, indexed_out, parser, hung, analysis_cache,
                 last_analysis_time, analysis_stats, connected, clock>>

\* _get_page_info raises: get_targets failed or the target is not listed
PageInfoFail(t) ==
  /\ ~hung
  /\ task[t].pc = "page_info"
  /\ Raise(t, "page_info_failed")
  /\ UNCHANGED <<indexer, indexed_out, parser, hung, analysis_cache,
                 last_analysis_time, analysis_stats, connected, clock>>

\* analyze_page after index_elements: the interactive elements are
\* collected and the call is suspended at the await of the page metrics
AxTreeIndexed(t, accessibility_nodes, r) ==
  /\ PassDone(r)
  /\ IF r.hang THEN task' = task /\ returned' = NoReturn
     ELSE IF InteractiveRaises(r.st) THEN Raise(t, "convert_error")
     ELSE /\ task' = [task EXCEPT ![t] =
               [@ EXCEPT !.pc = "metrics",
                         !.accessibility_nodes = accessibility_nodes,
                         !.indexed_elements = r.indexed_elements,
                         !.interactive_elements =
                            get_interactive_elements(r.st)]]
          /\ returned' = NoReturn

\* the tree is parsed and indexed
AxTreeParsed(t, p) ==
  /\ parser' = p
  /\ AxTreeIndexed(t, p.accessibility_nodes,
                   index_elements(indexer, p.accessibility_nodes))

\* _get_accessibility_tree returns; the tree is parsed and indexed and the
\* interactive elements are collected, up to the await of the page metrics
AxTreeOk(t, accessibility_tree) ==
  /\ ~hung
  /\ task[t].pc = "ax_tree"
  /\ AxTreeParsed(t, ParseCall(accessibility_tree))
  /\ UNCHANGED <<analysis_cache, last_analysis_time, analysis_stats,
                 connected, clock>>

\* AxTreeFail with the entry of the target evicted when the fetch fails
AxTreeFail_evicts(t) ==
  /\ ~hung
  /\ task[t].pc = "ax_tree"
  /\ Raise(t, "ax_tree_failed")
  /\ analysis_cache' = Del(analysis_cache, task[t].target_id)
  /\ last_analysis_time' = Del(last_analysis_time, task[t].target_id)
  /\ UNCHANGED <<indexer, indexed_out, parser, hung, analysis_stats, connected,
                 clock>>

\* _get_accessibility_tree raises: the response reports no success
AxTreeFail(t) ==
  /\ ~hung
  /\ task[t].pc = "ax_tree"
  /\ Raise(t, "ax_tree_failed")
  /\ UNCHANGED <<indexer, indexed_out, parser, hung, analysis_cache,
                 last_analysis_time, analysis_stats, connected, clock>>

\* _get_page_metrics returns (the metrics, or None after a failure that it
\* swallows); the result is assembled, stored and returned
Commit(t, page_metrics) ==
  /\ ~hung
  /\ task[t].pc = "metrics"
  /\ LET target_id == task[t].target_id
         analysis_time == clock - task[t].start_time
         result ==
           [target_id |-> target_id,
            timestamp |-> task[t].start_time,
            url |-> task[t].page_info[1].url,
            title |-> task[t].page_info[1].title,
            accessibility_nodes |-> task[t].accessibility_nodes,
            indexed_elements |-> task[t].indexed_elements,
            interactive_elements |-> task[t].interactive_elements,
            page_metrics |-> page_metrics,
            dom_hash |-> calculate_dom_hash(task[t].accessibility_nodes,
                                            task[t].indexed_elements),
            analysis_time |-> analysis_time,
            total_elements |-> Len(task[t].indexed_elements),
            interactive_count |-> Len(task[t].interactive_elements)]
     IN  /\ analysis_cache' = Put(analysis_cache, target_id, result)
         /\ last_analysis_time' =
              Put(last_analysis_time, target_id, task[t].start_time)
         /\ analysis_stats' =
              [analysis_stats EXCEPT !.total_analyses = @ + 1,
                                     !.total_analysis_time = @ + analysis_time]
         /\ returned' = Ended(t, "result", FALSE, Some(result))
         /\ task' = [task EXCEPT ![t] = IdleTask]
  /\ UNCHANGED <<indexer, indexed_out, parser, hung, connected, clock>>

\* the call is cancelled while it is suspended at an await: CancelledError
\* is not an Exception, it passes the handlers and ends the call
Cancel(t) ==
  /\ ~hung
  /\ InFlight(t)
  /\ Raise(t, "cancelled")
  /\ UNCHANGED <<indexer, indexed_out, parser, hung, analysis_cache,
                 last_analysis_time, analysis_stats, connected, clock>>

\* a variant of clear_cache(target_id) that leaves the timestamp of the key
ClearCache_keeps_time(target_id) ==
  /\ ~hung
  /\ analysis_cache' = Del(analysis_cache, target_id)
  /\ last_analysis_time' = last_analysis_time
  /\ returned' = NoReturn
  /\ UNCHANGED <<indexer, indexed_out, parser, hung, analysis_stats, connected,
                 clock, task>>

\* DOMAnalyzer.clear_cache(target_id): "if target_id:" sends the empty
\* string to the branch that clears every key
ClearCache(target_id) ==
  /\ ~hung
  /\ IF target_id # ""
     THEN /\ analysis_cache' = Del(analysis_cache, target_id)
          /\ last_analysis_time' = Del(last_analysis_time, target_id)
     ELSE /\ analysis_cache' = EmptyDict
          /\ last_analysis_time' = EmptyDict
  /\ returned' = NoReturn
  /\ UNCHANGED <<indexer, indexed_out, parser, hung, analysis_stats, connected,
                 clock, task>>

\* a variant of clear_cache() that also resets the statistics
ClearCacheAll_resets_stats ==
  /\ ~hung
  /\ analysis_cache' = EmptyDict
  /\ last_analysis_time' = EmptyDict
  /\ analysis_stats' = [total_analyses |-> 0, cache_hits |-> 0,
                        cache_misses |-> 0, total_analysis_time |-> 0]
  /\ returned' = NoReturn
  /\ UNCHANGED <<indexer, indexed_out, parser, hung, connected, clock, task>>

\* DOMAnalyzer.clear_cache()
ClearCacheAll ==
  /\ ~hung
  /\ analysis_cache' = EmptyDict
  /\ last_analysis_time' = EmptyDict
  /\ returned' = NoReturn
  /\ UNCHANGED <<indexer, indexed_out, parser, hung, analysis_stats, connected,
                 clock, task>>

\* a quotient num / den of the statistics; Python raises ZeroDivisionError
\* when den is 0
Quotient(num, den) == [num |-> num, den |-> den, raises |-> den = 0]

\* the value 0.0
Zero == [num |-> 0, den |-> 1, raises |-> FALSE]

\* get_analysis_stats: the counters, with the average duration and the hit
\* rate computed when an analysis has completed and 0.0 for both otherwise
get_analysis_stats(stats) ==
  IF stats.total_analyses > 0
  THEN [total_analyses |-> stats.total_analyses,
        cache_hits |-> stats.cache_hits,
        cache_misses |-> stats.cache_misses,
        total_analysis_time |-> stats.total_analysis_time,
        average_analysis_time |->
          Quotient(stats.total_analysis_time, stats.total_analyses),
        cache_hit_rate |->
          Quotient(stats.cache_hits, stats.cache_hits + stats.cache_misses)]
  ELSE [total_analyses |-> stats.total_analyses,
        cache_hits |-> stats.cache_hits,
        cache_misses |-> stats.cache_misses,
        total_analysis_time |-> stats.total_analysis_time,
        average_analysis_time |-> Zero,
        cache_hit_rate |-> Zero]

\* time passes
Tick(d) ==
  /\ ~hung
  /\ clock + d <= MaxTime
  /\ clock' = clock + d
  /\ returned' = NoReturn
  /\ UNCHANGED <<indexer, indexed_out, parser, hung, analysis_cache,
                 last_analysis_time, analysis_stats, connected, task>>

Next ==
  \/ \E t \in Tasks, target_id \in Keys, force_refresh \in BOOLEAN :
       Call(t, target_id, force_refresh)
  \/ \E t \in Tasks : ConnectOk(t)
  \/ \E t \in Tasks : ConnectFail(t)
  \/ \E t \in Tasks : PageInfoOk(t)
  \/ \E t \in Tasks : PageInfoFail(t)
  \/ \E t \in Tasks, accessibility_tree \in Snapshots :
       AxTreeOk(t, accessibility_tree)
  \/ \E t \in Tasks : AxTreeFail(t)
  \/ \E t \in Tasks, page_metrics \in {None, Some("metrics")} :
       Commit(t, page_metrics)
  \/ \E t \in Tasks : Cancel(t)
  \/ \E target_id \in Keys \cup {""} : ClearCache(target_id)
  \/ ClearCacheAll
  \/ \E d \in TickSteps : Tick(d)

Spec == Init /\ [][Next]_vars

\* ------------------------------------------------------------------------
\* The analyzer with its invalidations on record, on snapshots that may
\* repeat an identifier
\* ------------------------------------------------------------------------
\* the snapshots, and one in which two nodes share an identifier
WideSnapshots == Snapshots \cup {[nodes |-> <<RawButton(1), RawStatus(1)>>]}

\* DOMAnalyzer.clear_cache(target_id); the call is recorded as the event of
\* the step
Invalidate(target_id) ==
  /\ ~hung
  /\ analysis_cache' = Del(analysis_cache, target_id)
  /\ last_analysis_time' = Del(last_analysis_time, target_id)
  /\ returned' = Cleared(target_id)
  /\ UNCHANGED <<indexer, indexed_out, parser, hung, analysis_stats, connected,
                 clock, task>>

NextWide ==
  \/ \E t \in Tasks, target_id \in Keys, force_refresh \in BOOLEAN :
       Call(t, target_id, force_refresh)
  \/ \E t \in Tasks : ConnectOk(t)
  \/ \E t \in Tasks : ConnectFail(t)
  \/ \E t \in Tasks : PageInfoOk(t)
  \/ \E t \in Tasks : PageInfoFail(t)
  \/ \E t \in Tasks, accessibility_tree \in WideSnapshots :
       AxTreeOk(t, accessibility_tree)
  \/ \E t \in Tasks : AxTreeFail(t)
  \/ \E t \in Tasks, page_metrics \in {None, Some("metrics")} :
       Commit(t, page_metrics)
  \/ \E t \in Tasks : Cancel(t)
  \/ \E target_id \in Keys : Invalidate(target_id)
  \/ \E d \in TickSteps : Tick(d)

SpecWide == Init /\ [][NextWide]_vars

\* ------------------------------------------------------------------------
\* Claims about the indexer
\* ------------------------------------------------------------------------
\* the identifier whose node the last pass stored under index i
IdAt(st, i) == st.index_to_node[i].node.node_id

\* the identifiers that the last pass indexed and that still own their index
Indexed(st) ==
  {id \in DOMAIN st.node_id_to_index :
     /\ st.node_id_to_index[id] \in DOMAIN st.index_to_node
     /\ IdAt(st, st.node_id_to_index[id]) = id}

CategoryOf(st, id) == st.index_to_node[st.node_id_to_index[id]].is_interactive

\* C1: an identifier indexed in the previous pass whose category is
\* unchanged receives in the next pass the index it had in the previous pass.
C1_IndexStability ==
  [][\A id \in Indexed(indexer) \cap Indexed(indexer') :
       (/\ id \in DOMAIN indexer.previous_indices
        /\ CategoryOf(indexer, id) = CategoryOf(indexer', id))
       => indexer'.node_id_to_index[id] = indexer.previous_indices[id]]_vars

\* the number of entries of the log before position i that took a new index
RECURSIVE Misses(_, _)
Misses(log, i) ==
  IF i = 0 THEN 0
  ELSE Misses(log, i - 1) + (IF log[i].hit THEN 0 ELSE 1)

\* the last entry before position i with the identifier of entry i, or 0
Earlier(log, i) ==
  LET js == {j \in 1..(i - 1) : log[j].node_id = log[i].node_id}
  IN  IF js = {} THEN 0 ELSE CHOOSE j \in js : \A k \in js : k <= j

\* C2: a node whose category differs from the category its identifier had
\* before (in the previous pass, or earlier in the same pass) never takes
\* the reuse path; its index is the next value of the pass counter.
C2_CategorySwitch ==
  /\ [][\A i \in DOMAIN indexer'.log :
          LET e == indexer'.log[i]
          IN  (/\ indexer' # indexer
               /\ Earlier(indexer'.log, i) = 0
               /\ e.node_id \in Indexed(indexer)
               /\ e.node_id \in DOMAIN indexer.previous_indices
               /\ CategoryOf(indexer, e.node_id) # (e.index_type = "interactive"))
              => (~e.hit /\ e.index = Misses(indexer'.log, i - 1))]_vars
  /\ [](\A i \in DOMAIN indexer.log :
          LET e == indexer.log[i]
              j == Earlier(indexer.log, i)
          IN  (j # 0 /\ indexer.log[j].index_type # e.index_type)
              => (~e.hit /\ e.index = Misses(indexer.log, i - 1)))

\* C3: in the list returned by one pass all indices are non-negative and
\* no two elements have the same index.
C3_UniqueIndices ==
  /\ \A i \in DOMAIN indexed_out : indexed_out[i].index >= 0
  /\ \A i, j \in DOMAIN indexed_out :
       i # j => indexed_out[i].index # indexed_out[j].index

\* ------------------------------------------------------------------------
\* Claims about the page-state cache
\* ------------------------------------------------------------------------
\* a stored result for the key whose age is below the time to live
Valid(target_id) ==
  /\ target_id \in DOMAIN analysis_cache
  /\ clock - analysis_cache[target_id].timestamp < cache_duration

\* the step in which caller t enters analyze_page and misses the cache
MissStep(t) ==
  /\ task[t].pc = "idle" /\ task'[t].pc # "idle"
  /\ returned'.outcome = "started" /\ returned'.task = t

\* the step in which a call is served from the cache
HitStep == returned'.from_cache

\* the step in which a fresh pass stores and returns its result
CommitStep == returned'.outcome = "result" /\ ~returned'.from_cache

\* C4: a call without force_refresh that finds a stored result younger than
\* the time to live returns exactly that result, starts no fetch, no parse
\* and no indexing, and leaves the cache maps and the indexer as they were.
C4_CacheHit ==
  [][/\ \A t \in Tasks :
          (MissStep(t) /\ ~returned'.force_refresh)
            => ~Valid(returned'.target_id)
     /\ HitStep =>
          /\ returned'.outcome = "result"
          /\ returned'.target_id \in DOMAIN analysis_cache
          /\ returned'.result = Some(analysis_cache[returned'.target_id])
          /\ UNCHANGED <<analysis_cache, last_analysis_time, indexer,
                         indexed_out, parser, task, connected>>]_vars

C4_Witness ==
  /\ returned.from_cache
  /\ returned.target_id \in DOMAIN analysis_cache
  /\ returned.result = Some(analysis_cache[returned.target_id])
  /\ clock - analysis_cache[returned.target_id].timestamp = 15

\* C5: a call is served from the cache exactly when force_refresh is false,
\* the key has an entry and the age of the entry is below the time to live;
\* every call adds one to exactly one of cache_hits and cache_misses and no
\* other step changes them; a fresh pass that succeeds stores its result,
\* stamped with the start of the call, under the key.
C5_TtlAndCounters ==
  [][/\ \A t \in Tasks :
          MissStep(t) =>
            /\ returned'.target_id = task'[t].target_id
            /\ ~(~returned'.force_refresh /\ Valid(returned'.target_id))
            /\ analysis_stats'.cache_misses = analysis_stats.cache_misses + 1
            /\ analysis_stats'.cache_hits = analysis_stats.cache_hits
     /\ HitStep =>
          /\ ~returned'.force_refresh /\ Valid(returned'.target_id)
          /\ analysis_stats'.cache_hits = analysis_stats.cache_hits + 1
          /\ analysis_stats'.cache_misses = analysis_stats.cache_misses
     /\ (~HitStep /\ \A t \in Tasks : ~MissStep(t)) =>
          /\ analysis_stats'.cache_hits = analysis_stats.cache_hits
          /\ analysis_stats'.cache_misses = analysis_stats.cache_misses
     /\ CommitStep =>
          /\ returned'.target_id \in DOMAIN analysis_cache'
          /\ returned'.result = Some(analysis_cache'[returned'.target_id])
          /\ analysis_cache'[returned'.target_id].timestamp
               = returned'.start_time
          /\ last_analysis_time'[returned'.target_id]
               = returned'.start_time]_vars

\* a call without force_refresh that found an entry of age cache_duration
\* and started a fresh pass
C5_Witness ==
  /\ returned.outcome = "started"
  /\ ~returned.force_refresh
  /\ InFlight(returned.task)
  /\ returned.target_id \in DOMAIN analysis_cache
  /\ returned.start_time - analysis_cache[returned.target_id].timestamp
       = cache_duration

\* C6: at any time at most one fresh pass is in flight for a key.
C6_SingleFlight ==
  \A t1, t2 \in Tasks :
    (t1 # t2 /\ InFlight(t1) /\ InFlight(t2))
      => task[t1].target_id # task[t2].target_id

\* C7: after the invalidation of a key the cache holds no result for the
\* key and the previous-pass maps of the indexer are empty.
C7_InvalidationClearsIndexer ==
  [][\A k \in DOMAIN analysis_cache :
       k \notin DOMAIN analysis_cache'
         => /\ k \notin DOMAIN last_analysis_time'
            /\ indexer'.previous_indices = EmptyDict
            /\ indexer'.previous_xpaths = EmptyDict]_vars

\* C8: a call whose page-info fetch or accessibility-tree fetch fails raises
\* and returns no result, and no step of such a call changes the
\* key->result map or the key->timestamp map: only the step that stores the
\* result of a successful pass does.
C8_ProviderFailure ==
  [][/\ returned'.outcome \in {"page_info_failed", "ax_tree_failed"}
          => returned'.result = None
     /\ \A t \in Tasks :
          (task'[t] # task[t] /\ ~(CommitStep /\ returned'.task = t))
            => UNCHANGED <<analysis_cache, last_analysis_time>>]_vars

\* a fetch has failed and the earlier result of the key is still stored
C8_Witness ==
  /\ returned.outcome \in {"page_info_failed", "ax_tree_failed"}
  /\ returned.target_id \in DOMAIN analysis_cache
  /\ returned.target_id \in DOMAIN last_analysis_time

\* C9: the steps of a pass up to its snapshot fetch, and the step in which
\* the fetch is cancelled or fails, change neither the indexer (counter,
\* current maps, previous-pass maps) nor the cache.
C9_CancelledFetch ==
  [][\A t \in Tasks :
       (/\ task'[t] # task[t]
        /\ task[t].pc \in {"idle", "connect", "page_info", "ax_tree"}
        /\ task'[t].pc # "metrics"
        /\ returned'.outcome # "convert_error")
       => UNCHANGED <<indexer, analysis_cache, last_analysis_time>>]_vars

\* a fetch was cancelled while the indexer and the cache held an earlier pass
C9_Witness ==
  /\ returned.outcome = "cancelled"
  /\ returned.at = "ax_tree"
  /\ indexer.previous_indices # EmptyDict
  /\ indexer.node_id_to_index # EmptyDict
  /\ returned.target_id \in DOMAIN analysis_cache

\* the indexer answers the point queries for the stored result of key k
Answers(st, k) ==
  /\ get_interactive_elements(st) = analysis_cache[k].interactive_elements
  /\ \A i \in DOMAIN analysis_cache[k].indexed_elements :
       get_element_by_index(st, analysis_cache[k].indexed_elements[i].index)
         = [raises |-> FALSE,
            element |-> Some(analysis_cache[k].indexed_elements[i])]

\* C10: a pass for one key leaves the previous-pass maps and the answers of
\* by_index and interactive_elements that belong to another key unchanged.
C10_PerKeyIsolation ==
  [][\A t \in Tasks :
       (task[t].pc = "ax_tree" /\ task'[t].pc = "metrics")
         => \A k \in (DOMAIN analysis_cache) \ {task[t].target_id} :
              Answers(indexer, k)
                => /\ indexer'.previous_indices = indexer.previous_indices
                   /\ indexer'.previous_xpaths = indexer.previous_xpaths
                   /\ Answers(indexer', k)]_vars

\* ------------------------------------------------------------------------
\* Claims about the parser
\* ------------------------------------------------------------------------
\* the raw nodes of the snapshot that was parsed
RawOf(p) ==
  IF p.ax_tree_data = EmptyDict \/ "nodes" \notin DOMAIN p.ax_tree_data
  THEN <<>>
  ELSE IF NotIterable(p.ax_tree_data.nodes) THEN <<>>
  ELSE p.ax_tree_data.nodes

\* a raw node that is not an object, or whose role is not a string
Malformed(node_data) ==
  \/ NotAnObject(node_data)
  \/ Get(Get(node_data, "role", EmptyDict), "value", "generic")
       \in UnhashableRoles

\* the call returned one node for every raw node, in snapshot order
Aligned(p) ==
  /\ p.called /\ ~p.failed
  /\ \A i \in DOMAIN RawOf(p) : ~Malformed(RawOf(p)[i])
  /\ Len(p.parsed_nodes) = Len(RawOf(p))
  /\ Len(p.accessibility_nodes) = Len(RawOf(p))

\* C13: a parsed node is interactive exactly when its role is in the
\* interactive-role set, or one of its state labels is button, link,
\* menuitem or tab, or it has an extracted property clickable, pressable or
\* selectable with a truthy value, or an extracted property onclick,
\* onkeydown, onkeyup or onsubmit with any value; role button is
\* interactive, role generic without such a property is not, role generic
\* with onclick = false is.
C13_InteractivityRule ==
  parser.called =>
    /\ \A i \in DOMAIN parser.parsed_nodes :
         LET n == parser.parsed_nodes[i]
         IN  n.is_interactive <=>
               \/ n.role \in interactive_roles
               \/ \E j \in DOMAIN n.states :
                    n.states[j] \in {"button", "link", "menuitem", "tab"}
               \/ \E j \in DOMAIN n.properties :
                    /\ n.properties[j].name
                         \in {"clickable", "pressable", "selectable"}
                    /\ n.properties[j].value = TRUE
               \/ \E j \in DOMAIN n.properties :
                    n.properties[j].name
                      \in {"onclick", "onkeydown", "onkeyup", "onsubmit"}
    /\ Aligned(parser) =>
         \A i \in DOMAIN RawOf(parser) :
           LET raw == RawOf(parser)[i]
               n == parser.parsed_nodes[i]
           IN  /\ raw.role.value = "button" => n.is_interactive
               /\ (raw.role.value = "generic" /\ raw.properties = <<>>)
                    => ~n.is_interactive
               /\ (/\ raw.role.value = "generic"
                   /\ raw.properties = <<RawProp("onclick", FALSE)>>)
                    => n.is_interactive

\* a node of role generic with the property onclick = false was parsed
C13_Witness ==
  /\ Aligned(parser)
  /\ \E i \in DOMAIN parser.parsed_nodes :
       /\ RawOf(parser)[i].role.value = "generic"
       /\ RawOf(parser)[i].properties = <<RawProp("onclick", FALSE)>>
       /\ parser.parsed_nodes[i].role = "generic"
       /\ parser.parsed_nodes[i].is_interactive

\* the length of a name without its leading and trailing blanks
TrimmedLength(name) ==
  LET solid == {i \in DOMAIN name : name[i] # " "}
  IN  IF solid = {} THEN 0
      ELSE (CHOOSE i \in solid : \A j \in solid : j <= i)
             - (CHOOSE i \in solid : \A j \in solid : i <= j) + 1

\* C14: the parser keeps the name of a node exactly when the trimmed
\* length of the name lies in [min_text_length, max_text_length]; otherwise
\* the name becomes empty and the node is kept.  A name of length 0 and a
\* name of length max_text_length + 1 are discarded, a name of length
\* max_text_length is kept.
C14_TextBounds ==
  Aligned(parser) =>
    \A i \in DOMAIN RawOf(parser) :
      LET name == RawOf(parser)[i].name.value
          kept == /\ TrimmedLength(name) >= min_text_length
                  /\ TrimmedLength(name) <= max_text_length
      IN  /\ parser.parsed_nodes[i].name = (IF kept THEN name ELSE <<>>)
          /\ parser.accessibility_nodes[i].name
               = (IF kept THEN name ELSE <<>>)
          /\ name = NameOf(max_text_length)
               => parser.accessibility_nodes[i].name = name
          /\ name = NameOf(max_text_length + 1)
               => parser.accessibility_nodes[i].name = <<>>

\* a name of length max_text_length + 1 was discarded and its node kept
C14_Witness ==
  /\ Aligned(parser)
  /\ \E i \in DOMAIN RawOf(parser) :
       /\ RawOf(parser)[i].name.value = NameOf(max_text_length + 1)
       /\ parser.accessibility_nodes[i].name = <<>>
       /\ parser.accessibility_nodes[i].node_id = RawOf(parser)[i].nodeId

\* C15: parse returns the empty list when the snapshot is absent, has no
\* node list or its node list is malformed; a malformed raw node is skipped
\* alone, and every well-formed node of the batch is returned, in snapshot
\* order.
C15_ParserFailure ==
  parser.called =>
    LET wellformed == SelectSeq(RawOf(parser), LAMBDA n : ~Malformed(n))
    IN  /\ Len(parser.accessibility_nodes) = Len(wellformed)
        /\ \A i \in DOMAIN wellformed :
             /\ parser.accessibility_nodes[i].node_id = wellformed[i].nodeId
             /\ parser.accessibility_nodes[i].role = wellformed[i].role.value

\* C16: the state labels of every parsed node contain exactly one of hidden
\* and visible: hidden when the node is marked hidden by its top-level
\* field or by an entry of its property list, visible otherwise.
C16_VisibilityState ==
  Aligned(parser) =>
    \A i \in DOMAIN RawOf(parser) :
      LET raw == RawOf(parser)[i]
          state == parser.accessibility_nodes[i].state
          marked == \/ raw.hidden
                    \/ raw.properties = <<RawProp("hidden", TRUE)>>
      IN  /\ ("hidden" \in DOMAIN state) # ("visible" \in DOMAIN state)
          /\ ("hidden" \in DOMAIN state) <=> marked

\* ------------------------------------------------------------------------
\* Claims about the eligibility filter and repeated passes
\* ------------------------------------------------------------------------
\* the exclusion rule as it is stated: hidden, or unnamed and generic, or a
\* name longer than the maximum
Excluded(node) ==
  \/ "hidden" \in DOMAIN node.state
  \/ node.name = <<>> /\ node.role = "generic"
  \/ Len(node.name) > max_text_length

Eligible(node) == ~Excluded(node)

\* the nodes of the last snapshot that are not excluded, in snapshot order
Kept == SelectSeq(parser.accessibility_nodes, Eligible)

\* C11: a node is excluded from the indexed output if its state includes
\* "hidden" (whatever its role), or its name is empty and its role is
\* generic, or its name is longer than the maximum; an excluded node
\* produces no IndexedElement, takes no index from the pass counter and is
\* not entered in the identifier->index map: the pass handles exactly the
\* nodes that are not excluded, in order.
C11_EligibilityFilter ==
  (parser.called /\ ~hung) =>
    /\ Len(indexer.log) = Len(Kept)
    /\ \A i \in DOMAIN Kept : indexer.log[i].node_id = Kept[i].node_id
    /\ indexer.element_counter = Misses(indexer.log, Len(indexer.log))
    /\ DOMAIN indexer.node_id_to_index = {Kept[i].node_id : i \in DOMAIN Kept}
    /\ Len(indexed_out) = Len(Kept)
    /\ \A i \in DOMAIN Kept :
         /\ indexed_out[i].role = Kept[i].role
         /\ indexed_out[i].text = Kept[i].name
         /\ "hidden" \notin indexed_out[i].states

\* a pass over a hidden button, an unnamed generic node or a node with a
\* name that is too long, and a node that is indexed
C11_Witness ==
  /\ parser.called /\ ~hung
  /\ Len(parser.accessibility_nodes) = MaxLen
  /\ \E i \in DOMAIN parser.accessibility_nodes :
       /\ "hidden" \in DOMAIN parser.accessibility_nodes[i].state
       /\ parser.accessibility_nodes[i].role = "button"
  /\ Len(indexed_out) = 1
  /\ indexer.element_counter = 1

\* C12: a second pass over the same unchanged snapshot yields the same
\* identifier->index assignment, the same list of indexed elements and the
\* same fingerprint as the first, whatever the indexer carried over from
\* earlier passes.
C12_Idempotence ==
  [][(/\ parser.called /\ parser'.called
      /\ parser'.ax_tree_data = parser.ax_tree_data
      /\ ~hung')
     => /\ indexer'.node_id_to_index = indexer.node_id_to_index
        /\ indexed_out' = indexed_out
        /\ calculate_dom_hash(parser'.accessibility_nodes, indexed_out')
             = calculate_dom_hash(parser.accessibility_nodes, indexed_out)]_vars

\* the state after a second pass over a snapshot: every node that was
\* indexed was in the pass before
C12_Witness ==
  /\ parser.called /\ ~hung
  /\ Len(indexed_out) = MaxLen
  /\ indexer.previous_indices = indexer.node_id_to_index
  /\ \A i \in DOMAIN indexer.index_to_node : ~indexer.index_to_node[i].is_new
  /\ \E i \in DOMAIN indexed_out : indexed_out[i].index > 0

\* ------------------------------------------------------------------------
\* Claims about the depth walk, the fingerprint and the query by index
\* ------------------------------------------------------------------------
\* C17: computing the depth of a node terminates for every input node list,
\* including lists whose parent identifiers are dangling, self-referential
\* or cyclic (two nodes sharing one identifier that is its own parent): no
\* pass is left inside the depth walk.
C17_DepthTerminates == ~hung

\* the (identifier, role, name, value) record of a parsed node
NodeRecord(node) == <<node.node_id, node.role, node.name, node.value>>

\* the list b is the list a with two nodes of distinct records swapped
Swapped(a, b) ==
  /\ Len(a) = Len(b)
  /\ \E i, j \in DOMAIN a :
       /\ i < j
       /\ NodeRecord(a[i]) # NodeRecord(a[j])
       /\ b = [a EXCEPT ![i] = a[j], ![j] = a[i]]

\* the fingerprint analyze_page computes after the last pass
Fingerprint(p, indexed_elements) ==
  calculate_dom_hash(p.accessibility_nodes, indexed_elements)

\* C18: two analyses with identical ordered input have equal fingerprints,
\* and swapping two distinct nodes in the node list yields a different
\* fingerprint.
C18_FingerprintOrder ==
  [][(parser.called /\ parser'.called /\ ~hung /\ ~hung') =>
       /\ parser'.accessibility_nodes = parser.accessibility_nodes
            => Fingerprint(parser', indexed_out')
                 = Fingerprint(parser, indexed_out)
       /\ Swapped(parser.accessibility_nodes, parser'.accessibility_nodes)
            => Fingerprint(parser', indexed_out')
                 # Fingerprint(parser, indexed_out)]_vars

\* the integers a query is made with
QueryIndices == -1..MaxLen

\* C19: after any sequence of passes, the query by index i returns the
\* IndexedElement the most recent pass assigned index i if there is one and
\* nothing otherwise; it never raises, for any integer i and any input node
\* list, nodes with a role outside the role vocabulary included.
C19_PointQuery ==
  ~hung =>
    \A i \in QueryIndices :
      /\ ~get_element_by_index(indexer, i).raises
      /\ get_element_by_index(indexer, i).element # None
           => \E j \in DOMAIN indexed_out :
                indexed_out[j] = get_element_by_index(indexer, i).element[1]
      /\ get_element_by_index(indexer, i).element = None
           => \A j \in DOMAIN indexed_out : indexed_out[j].index # i

\* ------------------------------------------------------------------------
\* Claims about the statistics
\* ------------------------------------------------------------------------
\* the quotient q is the number num / den, and 0 when den is 0
Reports(q, num, den) ==
  /\ ~q.raises
  /\ IF den = 0 THEN q.num = 0 ELSE q.num * den = num * q.den

\* what get_analysis_stats reports in the current state
StatsReport ==
  /\ Reports(get_analysis_stats(analysis_stats).cache_hit_rate,
             analysis_stats.cache_hits,
             analysis_stats.cache_hits + analysis_stats.cache_misses)
  /\ Reports(get_analysis_stats(analysis_stats).average_analysis_time,
             analysis_stats.total_analysis_time,
             analysis_stats.total_analyses)
  /\ analysis_stats.total_analyses <= analysis_stats.cache_misses

\* no counter decreases in a step
StatsGrow ==
  /\ analysis_stats'.total_analyses >= analysis_stats.total_analyses
  /\ analysis_stats'.cache_hits >= analysis_stats.cache_hits
  /\ analysis_stats'.cache_misses >= analysis_stats.cache_misses
  /\ analysis_stats'.total_analysis_time >= analysis_stats.total_analysis_time

\* C20: the counters total_analyses, cache_hits, cache_misses and
\* total_analysis_time never decrease (invalidation does not reset them);
\* the reported hit rate is cache_hits / (cache_hits + cache_misses) and the
\* reported average duration is total_analysis_time / total_analyses, both 0
\* instead of a division by zero; total_analyses counts only the fresh
\* passes that completed, so total_analyses <= cache_misses in every state.
C20_Statistics == []StatsReport /\ [][StatsGrow]_vars

\* a fresh pass completed, a later call was answered from the cache, and
\* the cache was then invalidated
C20_Witness ==
  /\ analysis_stats.total_analyses > 0
  /\ analysis_stats.cache_hits > 0
  /\ analysis_stats.total_analysis_time > 0
  /\ analysis_cache = EmptyDict

\* ------------------------------------------------------------------------
\* Claims about the classification and the order of allocation
\* ------------------------------------------------------------------------
\* C21: for every eligible node the indexer categorizes the node as
\* interactive, and sets the interactivity flag of its element, if and only
\* if the interactivity rule of the parser is true of the same node; a named
\* generic node with an onclick property is interactive in both.
C21_ClassificationAgrees ==
  (parser.called /\ ~hung) =>
    \A i \in DOMAIN indexer.index_to_node :
      \A j \in DOMAIN parser.accessibility_nodes :
        parser.accessibility_nodes[j] = indexer.index_to_node[i].node
          => (indexer.index_to_node[i].is_interactive
                <=> parser.parsed_nodes[j].is_interactive)

\* the indexed elements of the pass whose index was freshly allocated, in
\* the order of the log
RECURSIVE FreshIndices(_)
FreshIndices(log) ==
  IF log = <<>> THEN <<>>
  ELSE (IF Head(log).hit THEN <<>> ELSE <<Head(log).index>>)
         \o FreshIndices(Tail(log))

\* C22: the allocation counter is reset to 0 at the start of every pass and
\* the indices freshly allocated during one pass are 0, 1, 2, ... in
\* discovery order; for the snapshot [button id 1, generic with empty name
\* id 2] the output is exactly one element: id 1 with index 0, role button,
\* interactive.
C22_AllocationOrder ==
  (parser.called /\ ~hung) =>
    /\ FreshIndices(indexer.log)
         = [i \in 1..indexer.element_counter |-> i - 1]
    /\ parser.ax_tree_data = [nodes |-> <<RawButton(1), RawGeneric(2)>>]
         => /\ Len(indexed_out) = 1
            /\ indexed_out[1].index = 0
            /\ indexed_out[1].role = "button"
            /\ indexed_out[1].is_interactive
            /\ indexer.node_id_to_index = [id \in {1} |-> 0]

\* a pass over MaxLen nodes that all took a fresh index, after an earlier
\* pass (no node is new)
C22_Witness ==
  /\ parser.called /\ ~hung
  /\ indexer.element_counter = MaxLen
  /\ Len(indexed_out) = MaxLen
  /\ \A i \in DOMAIN indexer.index_to_node : ~indexer.index_to_node[i].is_new

\* ------------------------------------------------------------------------
\* Claims about the relationships, the saved maps and the attributes
\* ------------------------------------------------------------------------
\* the node with this identifier produced an IndexedElement in the pass
Produced(st, id) ==
  /\ id \in DOMAIN st.node_id_to_index
  /\ st.node_id_to_index[id] \in DOMAIN st.index_to_node
  /\ ~ConvertRaises(st.index_to_node[st.node_id_to_index[id]])

\* the indices of the children that produced an IndexedElement
RECURSIVE ProducedChildren(_, _)
ProducedChildren(st, children) ==
  IF children = <<>> THEN <<>>
  ELSE (IF Produced(st, Head(children))
        THEN <<st.node_id_to_index[Head(children)]>> ELSE <<>>)
         \o ProducedChildren(st, Tail(children))

\* C23: in the result of one pass, the parent index of an element is the
\* index of its parent identifier if that parent produced an IndexedElement
\* in this pass and null otherwise, and its child-index list holds the index
\* of exactly the child identifiers that produced an IndexedElement in this
\* pass, whether the parent or the children come earlier or later in
\* snapshot order.
C23_Relationships ==
  (parser.called /\ ~hung) =>
    \A i \in DOMAIN indexer.index_to_node :
      /\ indexer.index_to_node[i].parent_index =
           IF /\ indexer.index_to_node[i].node.parent_id # None
              /\ Produced(indexer, indexer.index_to_node[i].node.parent_id[1])
           THEN Some(indexer.node_id_to_index[
                       indexer.index_to_node[i].node.parent_id[1]])
           ELSE None
      /\ indexer.index_to_node[i].children_indices =
           ProducedChildren(indexer, indexer.index_to_node[i].node.children)

\* the step is a call of ElementIndexer.clear_cache
ClearStep ==
  /\ parser' = parser
  /\ indexer' = [indexer EXCEPT !.previous_indices = EmptyDict,
                                !.previous_xpaths = EmptyDict]

\* C24: while a pass is running the previous-pass maps are not modified
\* (every node is compared with the maps of the pass before), and at the end
\* of every successful pass they are equal to the identifier->index and
\* path->index maps built by that pass: no entry of an older pass survives.
C24_PreviousMaps ==
  [][(~hung' /\ ~ClearStep) =>
       /\ indexer'.previous_indices = indexer'.node_id_to_index
       /\ indexer'.previous_xpaths = indexer'.xpath_to_index
       /\ \A i \in DOMAIN indexer'.index_to_node :
            indexer'.index_to_node[i].is_new <=>
              /\ indexer'.index_to_node[i].node.node_id
                   \notin DOMAIN indexer.previous_indices
              /\ indexer'.index_to_node[i].xpath
                   \notin DOMAIN indexer.previous_xpaths]_vars

\* after a pass that followed another: one node was in the pass before, and
\* the saved maps hold the two nodes of this pass
C24_Witness ==
  /\ parser.called /\ ~hung
  /\ indexer.previous_indices = indexer.node_id_to_index
  /\ Cardinality(DOMAIN indexer.previous_indices) = MaxLen
  /\ \E i \in DOMAIN indexer.index_to_node : ~indexer.index_to_node[i].is_new
  /\ \E i \in DOMAIN indexer.index_to_node : indexer.index_to_node[i].is_new

\* the attribute k is present exactly when the text is non-empty, and then
\* holds the text
AttributeIs(attributes, k, text) ==
  /\ k \in DOMAIN attributes <=> text # <<>>
  /\ text # <<>> => attributes[k] = text

\* the attributes are the ones the claim describes for the node
Synthesized(attributes, node) ==
  /\ \A s \in DOMAIN node.state :
       /\ s \in DOMAIN attributes
       /\ node.state[s] => attributes[s] = <<"true">>
       /\ ~node.state[s] => attributes[s] = <<"false">>
  /\ AttributeIs(attributes, "role",
                 IF node.role = "" THEN <<>> ELSE <<node.role>>)
  /\ AttributeIs(attributes, "name", node.name)
  /\ AttributeIs(attributes, "value",
                 IF node.value = None THEN <<>> ELSE node.value[1])
  /\ DOMAIN attributes \subseteq DOMAIN node.state \cup {"role", "name", "value"}

\* C25: for every indexed element, each state of the node whose value is
\* true appears in the attribute mapping as "true", each state whose value
\* is explicitly false appears as "false", and role, name and value appear
\* as attributes exactly when they are non-empty.
C25_Attributes ==
  /\ \A i \in DOMAIN indexer.index_to_node :
       Synthesized(indexer.index_to_node[i].attributes,
                   indexer.index_to_node[i].node)
  /\ \A j \in DOMAIN indexed_out :
       \E k \in DOMAIN parser.accessibility_nodes :
         /\ indexed_out[j].text = parser.accessibility_nodes[k].name
         /\ Synthesized(indexed_out[j].attributes,
                        parser.accessibility_nodes[k])

\* an element whose node has a state that is explicitly false, a name, and
\* an empty value
C25_Witness ==
  /\ Len(indexed_out) = 1
  /\ "hidden" \in DOMAIN indexed_out[1].attributes
  /\ indexed_out[1].attributes["hidden"] = <<"false">>
  /\ "checked" \in DOMAIN indexed_out[1].attributes
  /\ indexed_out[1].attributes["checked"] = <<"true">>
  /\ "name" \in DOMAIN indexed_out[1].attributes
  /\ "value" \notin DOMAIN indexed_out[1].attributes
  /\ parser.accessibility_nodes[1].value = Some(<<>>)

\* ------------------------------------------------------------------------
\* Claims about concurrent passes and invalidation
\* ------------------------------------------------------------------------
\* C27: under any interleaving of analyze calls for one key the timestamp of
\* the cached result of that key never decreases: a pass that started
\* earlier but finishes later never overwrites the result of a pass that
\* started later.
C27_FreshnessMonotonic ==
  [][\A target_id \in DOMAIN analysis_cache \cap DOMAIN analysis_cache' :
       analysis_cache'[target_id].timestamp
         >= analysis_cache[target_id].timestamp]_vars

\* the step ends a fresh pass with a result
FreshResult == returned'.outcome = "result" /\ ~returned'.from_cache

\* C26: if the key is invalidated while a fresh pass for the key is
\* suspended at a provider fetch, the pass does not put its result into the
\* cache when it resumes, and the first non-forced analyze of the key that
\* starts after the invalidation is a miss.  Stated for the step that
\* follows the invalidation.
C26_NoStaleCommit ==
  [][returned.at = "clear_cache" =>
       /\ (FreshResult /\ returned'.target_id = returned.target_id)
            => returned.target_id \notin DOMAIN analysis_cache'
       /\ returned'.target_id = returned.target_id
            => ~returned'.from_cache]_vars

\* C28: a pass that fails or is cancelled after the snapshot was fetched and
\* indexed commits nothing: the cache and the current and previous-pass maps
\* of the indexer are as they were before the pass started.  When no pass
\* has ever completed and none is in flight, they are as they were built.
C28_FailedPassCommitsNothing ==
  (/\ returned.outcome = "cancelled" /\ returned.at = "metrics"
   /\ analysis_stats.total_analyses = 0
   /\ \A t \in Tasks : task[t].pc = "idle")
    => /\ analysis_cache = EmptyDict
       /\ indexer.index_to_node = EmptyDict
       /\ indexer.node_id_to_index = EmptyDict
       /\ indexer.xpath_to_index = EmptyDict
       /\ indexer.previous_indices = EmptyDict
       /\ indexer.previous_xpaths = EmptyDict

\* ------------------------------------------------------------------------
\* Claims about the assembled result
\* ------------------------------------------------------------------------
IsInteractive(element) == element.is_interactive

\* the interactive subset, the totals and the element list of a result agree
Consistent(result) ==
  /\ result.interactive_elements
       = SortByIndex(SelectSeq(result.indexed_elements, IsInteractive))
  /\ result.total_elements = Len(result.indexed_elements)
  /\ result.interactive_count = Len(result.interactive_elements)

\* C29: in every PageAnalysisResult the interactive subset is exactly the
\* sub-list of the indexed element list whose interactivity flag is true,
\* ordered by index; total_elements is the length of the indexed element
\* list and interactive_count the length of the interactive subset, for
\* every input node list, lists with repeated identifiers included.
C29_ResultConsistency ==
  \A target_id \in DOMAIN analysis_cache : Consistent(analysis_cache[target_id])

\* the returned list holds an element with this index
Returned(index) == \E k \in DOMAIN indexed_out : indexed_out[k].index = index

\* C30: in the element list returned by one pass, every non-null parent
\* index and every child index of an element is the index of some element
\* of the same returned list.
C30_ReferentialIntegrity ==
  (parser.called /\ ~hung) =>
    \A j \in DOMAIN indexed_out :
      /\ indexed_out[j].parent_index # None
           => Returned(indexed_out[j].parent_index[1])
      /\ \A c \in DOMAIN indexed_out[j].children_indices :
           Returned(indexed_out[j].children_indices[c])

\* ------------------------------------------------------------------------
\* Claims about the output of a pass
\* ------------------------------------------------------------------------
\* C31: in every pass each node that passes the eligibility filter yields
\* exactly one IndexedElement in the returned list, and an index is
\* allocated and entered in the identifier->index and index->node maps only
\* for nodes that appear in the returned list, nodes with a role outside the
\* role vocabulary included.
C31_OutputMatchesIndices ==
  (parser.called /\ ~hung) =>
    /\ Len(indexed_out) = Len(Kept)
    /\ \A i \in DOMAIN indexer.index_to_node : Returned(i)
    /\ \A id \in DOMAIN indexer.node_id_to_index :
         Returned(indexer.node_id_to_index[id])
    /\ indexer.element_counter <= Len(indexed_out)

\* ------------------------------------------------------------------------
\* Claims about the analyzer's cache maps
\* ------------------------------------------------------------------------
\* the two maps hold the same keys, and the result stored under a key names
\* that key and carries the timestamp stored under it
CacheConsistent ==
  /\ DOMAIN analysis_cache = DOMAIN last_analysis_time
  /\ \A k \in DOMAIN analysis_cache :
       /\ analysis_cache[k].target_id = k
       /\ analysis_cache[k].timestamp = last_analysis_time[k]

\* a step of clear_cache that changes a map: the only other steps that write
\* the maps are the stores of analyze_page, which end a call with a result
InvalidationStep ==
  /\ returned' = NoReturn
  /\ \/ analysis_cache' # analysis_cache
     \/ last_analysis_time' # last_analysis_time

\* what clear_cache may do to the maps: drop one key from both and keep the
\* entries of every other key, or leave both maps empty
DropsOneKey(k) ==
  /\ analysis_cache' = Del(analysis_cache, k)
  /\ last_analysis_time' = Del(last_analysis_time, k)

LeavesEmpty ==
  /\ analysis_cache' = EmptyDict
  /\ last_analysis_time' = EmptyDict

\* C32: in every reachable state the key->result map and the key->timestamp
\* map have the same key set and the result stored under a key k has target
\* identifier k and the timestamp stored under k; invalidating one non-empty
\* key removes the entries of that key only, and invalidating all keys (the
\* empty-string key included) leaves both maps empty.
C32_CacheMapsConsistent ==
  /\ []CacheConsistent
  /\ [][InvalidationStep =>
         /\ LeavesEmpty \/ \E k \in Keys : DropsOneKey(k)
         /\ ClearCache("") => LeavesEmpty
         /\ ClearCacheAll => LeavesEmpty
         /\ \A k \in Keys : ClearCache(k) => DropsOneKey(k)]_vars

\* both keys were analysed and one of them was invalidated since: the other
\* key's result and timestamp are still stored
C32_Witness ==
  /\ analysis_stats.total_analyses = 2
  /\ DOMAIN analysis_cache = {"B"}
  /\ DOMAIN last_analysis_time = {"B"}
  /\ analysis_cache["B"].timestamp = last_analysis_time["B"]

\* ------------------------------------------------------------------------
\* Claims about state labels
\* ------------------------------------------------------------------------
\* the labels of the state vocabulary that are true on the node an element
\* was converted from
TrueLabels(element) ==
  LET state == indexer.index_to_node[element.index].node.state
  IN  {s \in ElementStateValues : s \in DOMAIN state /\ state[s]}

\* C33: the state-label list of every indexed element contains each label
\* of the state vocabulary that is true on its node; in particular every
\* element produced from a parsed snapshot carries "visible".
C33_StateLabelsReachOutput ==
  (parser.called /\ ~hung) =>
    \A i \in DOMAIN indexed_out :
      /\ indexed_out[i].index \in DOMAIN indexer.index_to_node
      /\ TrueLabels(indexed_out[i]) \subseteq indexed_out[i].states
      /\ "visible" \in indexed_out[i].states

\* ------------------------------------------------------------------------
\* Claims about the two length checks
\* ------------------------------------------------------------------------
\* the indexer's filter rejects the node for the length of its name alone
TooLongForIndexer(node) ==
  /\ node.name # <<>>
  /\ ~should_index_node(node)
  /\ should_index_node([node EXCEPT !.name = <<"a">>])

\* C34: every non-empty name the parser keeps passes the indexer's
\* maximum-length check, so in the parse-then-index pipeline no node is
\* excluded by the indexer for an over-long name, names padded with leading
\* or trailing whitespace included.
C34_LengthChecksAgree ==
  (parser.called /\ ~hung) =>
    \A i \in DOMAIN parser.accessibility_nodes :
      LET node == parser.accessibility_nodes[i]
      IN  /\ node.name # <<>> => Len(node.name) <= max_text_length
          /\ ~TooLongForIndexer(node)

\* ------------------------------------------------------------------------
\* Claims about the is-new mark
\* ------------------------------------------------------------------------
\* a step that runs a pass to its end
PassStep == ~hung' /\ ~ClearStep

\* no saved map of an earlier pass is left: the indexer is new or its cache
\* was cleared after the last pass
NothingSaved ==
  /\ indexer.previous_indices = EmptyDict
  /\ indexer.previous_xpaths = EmptyDict

\* the pass of this step runs over the snapshot of the pass before it, with
\* the maps that pass saved
RepeatedPass ==
  /\ parser.called
  /\ parser'.ax_tree_data = parser.ax_tree_data
  /\ indexer.previous_indices = indexer.node_id_to_index
  /\ indexer.previous_xpaths = indexer.xpath_to_index

\* C35: during a pass a node is marked new if and only if its identifier is
\* absent from the identifier map of the previous pass and its path string
\* is absent from the path map of the previous pass; hence in the first pass
\* and in the first pass after the indexer's cache was cleared every indexed
\* node is new, and in a repeated pass over an unchanged snapshot no indexed
\* node is new.
C35_IsNew ==
  [][PassStep =>
       \A i \in DOMAIN indexer'.index_to_node :
         LET indexed_node == indexer'.index_to_node[i]
             id_absent ==
               indexed_node.node.node_id \notin DOMAIN indexer.previous_indices
             path_absent ==
               indexed_node.xpath \notin DOMAIN indexer.previous_xpaths
         IN  /\ indexed_node.is_new <=> (id_absent /\ path_absent)
             /\ NothingSaved => indexed_node.is_new
             /\ RepeatedPass => ~indexed_node.is_new]_vars

\* a pass met an identifier it had not seen under a path it had seen: the
\* node with identifier 2 is not new although only identifier 1 was indexed
\* before it in this pass, and the node with identifier 1 is not new either
C35_Witness ==
  /\ parser.called /\ ~hung
  /\ Len(indexed_out) = 2
  /\ indexer.node_id_to_index = [id \in {1, 2} |-> id - 1]
  /\ indexer.index_to_node[0].xpath = indexer.index_to_node[1].xpath
  /\ ~indexer.index_to_node[0].is_new
  /\ ~indexer.index_to_node[1].is_new

====
